---- MODULE Spec2Model ----
(***************************************************************************)
(* Model of make_prez_names.py: a script that prints a SQL transaction of  *)
(* EDITS x ITEMS 'INSERT OR REPLACE' statements, each giving a slot a name *)
(* recombined from two random picks of a five-entry pool.                  *)
(*                                                                         *)
(* A Python string is a sequence of one-character strings, so that         *)
(* str.split() and the two '%' formattings are computed, not assumed.      *)
(* Standard output is the sequence of printed lines (print() ends each     *)
(* with a newline, so one element of out is one line).                     *)
(***************************************************************************)
EXTENDS Integers, Sequences, FiniteSets

\* ---------------------------------------------------------------- bounds
\* ITEMS and EDITS are 100 and 500 in the script; the model checks the
\* script for every configuration within these bounds.
MaxItems == 2
MaxEdits == 2
\* most INSERT lines (ITEMS * EDITS) of a configuration checked with a
\* random source that may return any pool entry at every call
MaxLines == 2
\* most INSERT lines of a configuration checked with a random source that
\* returns only the first or the last pool entry
MaxLinesStub == 4

VARIABLES
    ITEMS,      \* configuration: number of slots
    EDITS,      \* configuration: number of passes
    pc,         \* the line of the script about to execute
    edit,       \* loop variable of the outer for (-1: not bound yet)
    item,       \* loop variable of the inner for (-1: not bound yet)
    edit_iter,  \* next value iter(range(EDITS)) yields
    item_iter,  \* next value iter(range(ITEMS)) yields
    full_name,  \* the variable full_name (<<>>: not bound yet)
    out,        \* standard output, one element per printed line
    out_edit,   \* for each line of out, the value of edit when it was printed
    draws,      \* pool indices returned by random.choice so far, in call order
    iters,      \* executions of the inner loop body so far
    source,     \* the pool indices the random source returns in this behaviour
    run,        \* 1: first run of the script; 2: the run with the draws replayed
    replay,     \* run 2: the draws of run 1, the random source will repeat
    prev_out    \* run 2: the complete output of run 1

vars == <<ITEMS, EDITS, pc, edit, item, edit_iter, item_iter, full_name,
          out, out_edit, draws, iters, source, run, replay, prev_out>>

\* what no line of the script assigns: the configuration, the random
\* source, and the record of an earlier run
fixed == <<ITEMS, EDITS, source, run, replay, prev_out>>

\* ------------------------------------------------------------ the pool
\* lines 8-14: the five full names, before the split
raw_names == <<
    <<"G","e","o","r","g","e"," ","W","a","s","h","i","n","g","t","o","n">>,
    <<"T","h","o","m","a","s"," ","J","e","f","f","e","r","s","o","n">>,
    <<"A","b","r","a","h","a","m"," ","L","i","n","c","o","l","n">>,
    <<"F","r","a","n","k","l","i","n"," ","R","o","o","s","e","v","e","l","t">>,
    <<"J","o","h","n"," ","K","e","n","e","d","y">> >>

\* the characters str.split() with no argument treats as separators (the
\* ASCII ones that a string of this module can hold; the pool has spaces only)
IsSpace(ch) == ch \in {" ", "\t", "\n", "\r", "\f"}

\* str.split(): the maximal runs of non-space characters, in order.
\* SplitFrom scans s from position i; cur is the word being read.
RECURSIVE SplitFrom(_, _, _)
SplitFrom(s, i, cur) ==
    IF i > Len(s)
    THEN IF cur = <<>> THEN <<>> ELSE <<cur>>
    ELSE IF IsSpace(s[i])
         THEN IF cur = <<>>
              THEN SplitFrom(s, i + 1, <<>>)
              ELSE <<cur>> \o SplitFrom(s, i + 1, <<>>)
         ELSE SplitFrom(s, i + 1, Append(cur, s[i]))

split(s) == SplitFrom(s, 1, <<>>)

\* line 15: names = [n.split() for n in names]
names == [i \in DOMAIN raw_names |-> split(raw_names[i])]

\* --------------------------------------------------------- formatting
Digits == <<"0","1","2","3","4","5","6","7","8","9">>

\* '%i' % n for n >= 0: the decimal digits of n, most significant first
RECURSIVE int_str(_)
int_str(n) ==
    IF n < 10 THEN <<Digits[n + 1]>>
    ELSE int_str(n \div 10) \o <<Digits[(n % 10) + 1]>>

\* a name made of one draw only (faulty variant of FullName)
FullNameOneDraw(d) == names[d[1]][1] \o <<" ">> \o names[d[1]][2]

\* a name whose last name is evaluated first (faulty variant of FullName)
FullNameLastDrawnFirst(d) == names[d[2]][1] \o <<" ">> \o names[d[1]][2]

\* a name made of the second word of the first pick (faulty variant of FullName)
FullNameWrongIndex(d) == names[d[1]][2] \o <<" ">> \o names[d[2]][1]

\* line 20: "%s %s" % (random.choice(names)[0], random.choice(names)[1]),
\* d = the pool indices the two calls return, in evaluation order
\* (Python evaluates the tuple left to right). Index c is names[c-1] in
\* Python's counting.
FullName(d) == names[d[1]][1] \o <<" ">> \o names[d[2]][2]

BeginLine == <<"B","E","G","I","N",";">>

\* a COMMIT that lost its semicolon (faulty variant of CommitLine)
CommitLineNoSemicolon == <<"C","O","M","M","I","T">>

CommitLine == <<"C","O","M","M","I","T",";">>

\* an INSERT line with no space after the comma (faulty variant of InsertLine)
InsertLineNoSpace(slot, name) ==
    <<"I","N","S","E","R","T"," ","O","R"," ","R","E","P","L","A","C","E"," ",
      "I","N","T","O"," ","p","e","o","p","l","e"," ",
      "V","A","L","U","E","S"," ","(">>
    \o int_str(slot) \o <<",","\"">> \o name \o <<"\"",")",";">>

\* line 21: 'INSERT OR REPLACE INTO people VALUES (%i, "%s");' % (slot, name)
InsertLine(slot, name) ==
    <<"I","N","S","E","R","T"," ","O","R"," ","R","E","P","L","A","C","E"," ",
      "I","N","T","O"," ","p","e","o","p","l","e"," ",
      "V","A","L","U","E","S"," ","(">>
    \o int_str(slot) \o <<","," ","\"">> \o name \o <<"\"",")",";">>

\* ------------------------------------------------------- the iterators
\* a range that yields n as well (faulty variant of RangeHasNext)
RangeHasNextInclusive(it, n) == it <= n

\* iter(range(n)) whose next value is it: does it yield another value?
RangeHasNext(it, n) == it < n

\* ---------------------------------------------------- the random source
\* a random source that ignores the sequence it is to replay (faulty variant of
\* Choices)
ChoicesUnseeded(n) == source

\* what a call of random.choice(names) can return when n draws were made
\* before it in this run: an entry of the pool; in a run that replays a
\* sequence of draws (the same seed), the next entry of that sequence
Choices(n) ==
    IF run = 2 THEN {replay[n + 1]} ELSE source

\* the random sources the configurations are checked with: every pool
\* entry at every call, or only the first and the last entry
FullSource == DOMAIN names
StubSource == {1, Len(names)}

\* ---------------------------------------------------------------- Init
Configs ==
    {c \in (0..MaxItems) \X (0..MaxEdits) \X {FullSource, StubSource} :
        c[1] * c[2] <= (IF c[3] = FullSource THEN MaxLines ELSE MaxLinesStub)}

\* the interpreter at line 17, module-level names 'names', ITEMS and EDITS
\* bound (lines 5-15), nothing printed
Init ==
    /\ \E c \in Configs : ITEMS = c[1] /\ EDITS = c[2] /\ source = c[3]
    /\ pc = "begin"
    /\ edit = -1
    /\ item = -1
    /\ edit_iter = 0
    /\ item_iter = 0
    /\ full_name = <<>>
    /\ out = <<>>
    /\ out_edit = <<>>
    /\ draws = <<>>
    /\ iters = 0
    /\ run = 1
    /\ replay = <<>>
    /\ prev_out = <<>>

\* ------------------------------------------------------------- actions
\* line 17: print('BEGIN;'); then line 18 creates iter(range(EDITS))
Begin ==
    /\ pc = "begin"
    /\ out' = Append(out, BeginLine)
    /\ out_edit' = Append(out_edit, edit)
    /\ edit_iter' = 0
    /\ pc' = "for_edit"
    /\ UNCHANGED <<edit, item, item_iter, full_name, draws, iters, fixed>>

\* an outer for that does not create a new inner iterator for each pass
\* (faulty variant of ForEditNext)
ForEditNextSharedIter ==
    /\ pc = "for_edit"
    /\ RangeHasNext(edit_iter, EDITS)
    /\ edit' = edit_iter
    /\ edit_iter' = edit_iter + 1
    /\ pc' = "for_item"
    /\ UNCHANGED <<item, item_iter, full_name, out, out_edit, draws, iters,
                   fixed>>

\* line 18: for edit in range(EDITS): bind the next value; line 19 then
\* creates a fresh iter(range(ITEMS))
ForEditNext ==
    /\ pc = "for_edit"
    /\ RangeHasNext(edit_iter, EDITS)
    /\ edit' = edit_iter
    /\ edit_iter' = edit_iter + 1
    /\ item_iter' = 0
    /\ pc' = "for_item"
    /\ UNCHANGED <<item, full_name, out, out_edit, draws, iters, fixed>>

\* line 18: range(EDITS) is exhausted: fall through to line 22
ForEditDone ==
    /\ pc = "for_edit"
    /\ ~RangeHasNext(edit_iter, EDITS)
    /\ pc' = "commit"
    /\ UNCHANGED <<edit, item, edit_iter, item_iter, full_name, out, out_edit,
                   draws, iters, fixed>>

\* line 19: for item in range(ITEMS): bind the next value, enter the body
ForItemNext ==
    /\ pc = "for_item"
    /\ RangeHasNext(item_iter, ITEMS)
    /\ item' = item_iter
    /\ item_iter' = item_iter + 1
    /\ iters' = iters + 1
    /\ pc' = "make_name"
    /\ UNCHANGED <<edit, edit_iter, full_name, out, out_edit, draws, fixed>>

\* line 19: range(ITEMS) is exhausted: back to the outer for
ForItemDone ==
    /\ pc = "for_item"
    /\ ~RangeHasNext(item_iter, ITEMS)
    /\ pc' = "for_edit"
    /\ UNCHANGED <<edit, item, edit_iter, item_iter, full_name, out, out_edit,
                   draws, iters, fixed>>

\* line 20: two calls of random.choice, returning pool entries c1 then c2
MakeName(c1, c2) ==
    /\ pc = "make_name"
    /\ draws' = draws \o <<c1, c2>>
    /\ full_name' = FullName(<<c1, c2>>)
    /\ pc' = "print_insert"
    /\ UNCHANGED <<edit, item, edit_iter, item_iter, out, out_edit, iters,
                   fixed>>

\* line 20 with whatever the random source returns
MakeNameRandom ==
    /\ pc = "make_name"
    /\ \E c1 \in Choices(Len(draws)) :
           \E c2 \in Choices(Len(draws) + 1) :
               MakeName(c1, c2)

\* an INSERT that prints the pass number for the slot (faulty variant of PrintInsert)
PrintInsertEdit ==
    /\ pc = "print_insert"
    /\ out' = Append(out, InsertLine(edit, full_name))
    /\ out_edit' = Append(out_edit, edit)
    /\ pc' = "for_item"
    /\ UNCHANGED <<edit, item, edit_iter, item_iter, full_name, draws, iters,
                   fixed>>

\* line 21: print the INSERT line, then back to the inner for
PrintInsert ==
    /\ pc = "print_insert"
    /\ out' = Append(out, InsertLine(item, full_name))
    /\ out_edit' = Append(out_edit, edit)
    /\ pc' = "for_item"
    /\ UNCHANGED <<edit, item, edit_iter, item_iter, full_name, draws, iters,
                   fixed>>

\* a script that ends without closing the transaction (faulty variant of Commit)
CommitOmitted ==
    /\ pc = "commit"
    /\ pc' = "done"
    /\ UNCHANGED <<edit, item, edit_iter, item_iter, full_name, out, out_edit,
                   draws, iters, fixed>>

\* line 22: print('COMMIT;'), the end of the script
Commit ==
    /\ pc = "commit"
    /\ out' = Append(out, CommitLine)
    /\ out_edit' = Append(out_edit, edit)
    /\ pc' = "done"
    /\ UNCHANGED <<edit, item, edit_iter, item_iter, full_name, draws, iters,
                   fixed>>

\* the script is started a second time, in a fresh interpreter, with the
\* random source set to return what it returned in the run just finished
\* (the same seed); the first run's output is kept for comparison
Rerun ==
    /\ pc = "done"
    /\ run = 1
    /\ run' = 2
    /\ replay' = draws
    /\ prev_out' = out
    /\ pc' = "begin"
    /\ edit' = -1
    /\ item' = -1
    /\ edit_iter' = 0
    /\ item_iter' = 0
    /\ full_name' = <<>>
    /\ out' = <<>>
    /\ out_edit' = <<>>
    /\ draws' = <<>>
    /\ iters' = 0
    /\ UNCHANGED <<ITEMS, EDITS, source>>

Next ==
    \/ Begin
    \/ ForEditNext
    \/ ForEditDone
    \/ ForItemNext
    \/ ForItemDone
    \/ MakeNameRandom
    \/ PrintInsert
    \/ Commit

\* one run of the script
Spec == Init /\ [][Next]_vars

\* one run of the script, which the interpreter never suspends: a line
\* that can execute does
FairSpec == Spec /\ WF_vars(Next)

NextRerun ==
    \/ Next
    \/ Rerun

\* a run of the script followed by a second run with the same draws
SpecRerun == Init /\ [][NextRerun]_vars

\* ------------------------------------------------ reading the output
\* The properties read the printed text back, character by character, and
\* compare it with the text the documentation gives; they do not use the
\* operators that produced it.
IsPrefixOf(p, s) == Len(p) <= Len(s) /\ SubSeq(s, 1, Len(p)) = p

IsSuffixOf(p, s) ==
    Len(p) <= Len(s) /\ SubSeq(s, Len(s) - Len(p) + 1, Len(s)) = p

\* position of the first ch in s, 0 when there is none
FirstIndexOf(s, ch) ==
    IF \E i \in DOMAIN s : s[i] = ch
    THEN CHOOSE i \in DOMAIN s : s[i] = ch /\ \A j \in 1..(i - 1) : s[j] # ch
    ELSE 0

InsertWords ==
    <<"I","N","S","E","R","T"," ","O","R"," ","R","E","P","L","A","C","E">>

StatementHead ==
    InsertWords \o <<" ","I","N","T","O"," ","p","e","o","p","l","e"," ",
                     "V","A","L","U","E","S"," ","(">>

StatementTail == <<"\"",")",";">>

BeginText == <<"B","E","G","I","N",";">>

CommitText == <<"C","O","M","M","I","T",";">>

DecimalDigits == {"0","1","2","3","4","5","6","7","8","9"}

DigitValue(ch) ==
    CASE ch = "0" -> 0 [] ch = "1" -> 1 [] ch = "2" -> 2 [] ch = "3" -> 3
      [] ch = "4" -> 4 [] ch = "5" -> 5 [] ch = "6" -> 6 [] ch = "7" -> 7
      [] ch = "8" -> 8 [] ch = "9" -> 9

RECURSIVE DecimalValue(_)
DecimalValue(ds) ==
    IF ds = <<>> THEN 0
    ELSE 10 * DecimalValue(SubSeq(ds, 1, Len(ds) - 1)) + DigitValue(ds[Len(ds)])

\* an 'INSERT OR REPLACE' line
IsInsert(l) == IsPrefixOf(InsertWords, l)

\* what follows 'VALUES (' on a line
AfterHead(l) == SubSeq(l, Len(StatementHead) + 1, Len(l))

\* the text of the first value: up to the first comma
SlotText(l) ==
    SubSeq(AfterHead(l), 1, FirstIndexOf(AfterHead(l), ",") - 1)

\* the text of the second value: between the quotes
NameText(l) ==
    SubSeq(AfterHead(l), FirstIndexOf(AfterHead(l), ",") + 3,
           Len(AfterHead(l)) - Len(StatementTail))

\* l is  INSERT OR REPLACE INTO people VALUES (<digits>, "<text>");
WellFormed(l) ==
    /\ IsPrefixOf(StatementHead, l)
    /\ IsSuffixOf(StatementTail, l)
    /\ LET rest == AfterHead(l)
           comma == FirstIndexOf(rest, ",")
       IN /\ comma > 1
          /\ \A i \in 1..(comma - 1) : rest[i] \in DecimalDigits
          /\ Len(rest) >= comma + 2 + Len(StatementTail)
          /\ SubSeq(rest, comma, comma + 2) = <<",", " ", "\"">>

SlotOf(l) == DecimalValue(SlotText(l))

\* the name's text before and after its first space
FirstOf(l) ==
    SubSeq(NameText(l), 1, FirstIndexOf(NameText(l), " ") - 1)

LastOf(l) ==
    SubSeq(NameText(l), FirstIndexOf(NameText(l), " ") + 1, Len(NameText(l)))

\* the positions of the INSERT lines in the output
InsertPositions == {k \in DOMAIN out : IsInsert(out[k])}

\* the number of INSERT lines before position j
InsertsBefore(j) == Cardinality({i \in InsertPositions : i < j})

\* the first and last names of the documentation, in pool order
FirstNames == <<
    <<"G","e","o","r","g","e">>,
    <<"T","h","o","m","a","s">>,
    <<"A","b","r","a","h","a","m">>,
    <<"F","r","a","n","k","l","i","n">>,
    <<"J","o","h","n">> >>

LastNames == <<
    <<"W","a","s","h","i","n","g","t","o","n">>,
    <<"J","e","f","f","e","r","s","o","n">>,
    <<"L","i","n","c","o","l","n">>,
    <<"R","o","o","s","e","v","e","l","t">>,
    <<"K","e","n","e","d","y">> >>

Range(f) == {f[i] : i \in DOMAIN f}

\* ------------------------------------------------------------ properties

\* C1: the output starts with the line BEGIN; and, once the run has
\* finished, ends with the line COMMIT;. Each occurs once: BEGIN; is on
\* line 1 and nowhere else, COMMIT; is on no line but the last of a
\* finished run, and every INSERT line is after the first and, in a
\* finished run, before the last.
BeginFirstCommitLast ==
    /\ \A k \in DOMAIN out : (out[k] = BeginText) <=> (k = 1)
    /\ \A k \in DOMAIN out :
           out[k] = CommitText => (k = Len(out) /\ pc = "done")
    /\ pc = "done" => (Len(out) >= 2 /\ out[Len(out)] = CommitText)
    /\ \A k \in InsertPositions : k > 1 /\ (pc = "done" => k < Len(out))

\* a finished run of two passes over two slots
BeginFirstCommitLastWitness ==
    pc = "done" /\ ITEMS = 2 /\ EDITS = 2 /\ Len(out) = 6

\* C2: when the run has finished, the output has exactly ITEMS * EDITS
\* INSERT OR REPLACE lines, and ITEMS * EDITS + 2 lines in all.
InsertCountExact ==
    pc = "done" =>
        /\ Cardinality(InsertPositions) = ITEMS * EDITS
        /\ Len(out) = ITEMS * EDITS + 2

\* a finished run that printed four INSERT lines
InsertCountExactWitness ==
    pc = "done" /\ Cardinality(InsertPositions) = 4 /\ ITEMS * EDITS = 4

\* C3: every INSERT line is well formed and carries a slot in
\* 0..ITEMS-1; within a pass no slot is on two INSERT lines, and once the
\* pass is over every slot of 0..ITEMS-1 is on exactly one.
SlotsOncePerPass ==
    /\ \A k \in InsertPositions :
           WellFormed(out[k]) /\ SlotOf(out[k]) \in 0..(ITEMS - 1)
    /\ \A p \in 0..(EDITS - 1) : \A s \in 0..(ITEMS - 1) :
           LET n == Cardinality({k \in InsertPositions :
                                    out_edit[k] = p /\ SlotOf(out[k]) = s})
           IN /\ n <= 1
              /\ (p < edit \/ pc \in {"commit", "done"}) => n = 1

\* a finished run in which the second pass wrote the second slot
SlotsOncePerPassWitness ==
    /\ pc = "done"
    /\ \E k \in InsertPositions : out_edit[k] = 1 /\ SlotOf(out[k]) = 1

\* C4: the k-th INSERT line (k from 0) carries slot k mod ITEMS and was
\* printed in pass k div ITEMS.
PassMajorSlotMinor ==
    \A j \in InsertPositions :
        /\ ITEMS > 0
        /\ SlotOf(out[j]) = InsertsBefore(j) % ITEMS
        /\ out_edit[j] = InsertsBefore(j) \div ITEMS

\* two passes over two slots: the slots read 0, 1, 0, 1
PassMajorSlotMinorWitness ==
    /\ pc = "done"
    /\ Len(out) = 6
    /\ <<SlotOf(out[2]), SlotOf(out[3]), SlotOf(out[4]), SlotOf(out[5])>>
           = <<0, 1, 0, 1>>
    /\ <<out_edit[2], out_edit[3], out_edit[4], out_edit[5]>> = <<0, 0, 1, 1>>

\* C5: on every INSERT line the name is a first name of the list, one
\* space, and a last name of the list.
NamesFromPool ==
    \A k \in InsertPositions :
        /\ WellFormed(out[k])
        /\ FirstOf(out[k]) \in Range(FirstNames)
        /\ LastOf(out[k]) \in Range(LastNames)

\* a line naming John Washington after a line naming someone Kenedy
NamesFromPoolWitness ==
    /\ Len(out) >= 3
    /\ LastOf(out[2]) = <<"K","e","n","e","d","y">>
    /\ NameText(out[3]) =
           <<"J","o","h","n"," ","W","a","s","h","i","n","g","t","o","n">>

\* C6: with a random source that can return every pool entry, whenever
\* the script is about to build a name, each of the 25 combinations of a
\* first and a last name of the list can be the name it builds, and the
\* INSERT line then printed carries that name for the current slot.
EveryCombinationPossible ==
    /\ (pc = "make_name" /\ source = FullSource /\ run = 1) =>
           \A f \in DOMAIN FirstNames : \A l \in DOMAIN LastNames :
               ENABLED (MakeNameRandom /\
                        full_name' = FirstNames[f] \o <<" ">> \o LastNames[l])
    /\ pc = "print_insert" =>
           ENABLED (PrintInsert /\ NameText(out'[Len(out')]) = full_name
                                /\ SlotOf(out'[Len(out')]) = item)

\* about to build the second name, the first line naming George Lincoln
EveryCombinationPossibleWitness ==
    /\ pc = "make_name"
    /\ source = FullSource
    /\ iters = 2
    /\ NameText(out[2]) =
           <<"G","e","o","r","g","e"," ","L","i","n","c","o","l","n">>

FirstEntryScenario ==
    (\A i \in DOMAIN draws : draws[i] = 1) =>
        /\ \A k \in InsertPositions :
               NameText(out[k]) =
                   <<"G","e","o","r","g","e"," ",
                     "W","a","s","h","i","n","g","t","o","n">>
        /\ (pc = "done" /\ ITEMS = 2 /\ EDITS = 1) =>
               out = <<
                 <<"B","E","G","I","N",";">>,
                 <<"I","N","S","E","R","T"," ","O","R"," ",
                   "R","E","P","L","A","C","E"," ","I","N","T","O"," ",
                   "p","e","o","p","l","e"," ","V","A","L","U","E","S"," ",
                   "(","0",","," ","\"","G","e","o","r","g","e"," ",
                   "W","a","s","h","i","n","g","t","o","n","\"",")",";">>,
                 <<"I","N","S","E","R","T"," ","O","R"," ",
                   "R","E","P","L","A","C","E"," ","I","N","T","O"," ",
                   "p","e","o","p","l","e"," ","V","A","L","U","E","S"," ",
                   "(","1",","," ","\"","G","e","o","r","g","e"," ",
                   "W","a","s","h","i","n","g","t","o","n","\"",")",";">>,
                 <<"C","O","M","M","I","T",";">> >>

\* the scenario's run, finished: two slots, one pass, four draws of entry 1
FirstEntryScenarioWitness ==
    pc = "done" /\ ITEMS = 2 /\ EDITS = 1 /\ draws = <<1, 1, 1, 1>>

\* C9: every run reaches, and stays in, the final state: COMMIT; is the
\* last line printed and the loop body ran ITEMS * EDITS times; no line is
\* printed after COMMIT;.
TerminatesAfterAllIterations ==
    /\ <>[](/\ pc = "done"
            /\ iters = ITEMS * EDITS
            /\ out # <<>>
            /\ out[Len(out)] = CommitText)
    /\ [][(out # <<>> /\ out[Len(out)] = CommitText) => out' = out]_vars

\* a finished run whose loop body ran four times
TerminatesAfterAllIterationsWitness ==
    pc = "done" /\ iters = 4 /\ EDITS = 2

\* C10: the draws made are two for each INSERT line printed (and two more
\* when a name is built and not printed yet): none for BEGIN; or COMMIT;,
\* 2 * ITEMS * EDITS in a finished run. The k-th INSERT line (k from 0)
\* has the first name of the entry draw 2k returned and the last name of
\* the entry draw 2k+1 returned (draws[1] is draw 0).
TwoDrawsPerLine ==
    /\ Len(draws) = 2 * Cardinality(InsertPositions)
                      + (IF pc = "print_insert" THEN 2 ELSE 0)
    /\ pc = "done" => Len(draws) = 2 * ITEMS * EDITS
    /\ \A j \in InsertPositions :
           /\ 2 * InsertsBefore(j) + 2 <= Len(draws)
           /\ FirstOf(out[j]) = FirstNames[draws[2 * InsertsBefore(j) + 1]]
           /\ LastOf(out[j]) = LastNames[draws[2 * InsertsBefore(j) + 2]]

\* a finished run of two lines whose four draws returned four entries
TwoDrawsPerLineWitness ==
    pc = "done" /\ Len(draws) = 4 /\ Cardinality(Range(draws)) = 4

====
